---- MODULE Spec2Model ----
(***************************************************************************)
(* Daemon lifecycle and task orchestration of eww                          *)
(* (crates/eww/src/server.rs): detaching, signal handling, the supervised  *)
(* worker tasks (file watcher, IPC server, exit forwarder), the debounce   *)
(* gate and the UI command loop.                                           *)
(***************************************************************************)
EXTENDS Naturals, Integers, Sequences, FiniteSets

\* ------------------------------------------------------------------ bounds
MaxSignals == 2      \* SIGINT/SIGTERM deliveries explored
MaxEvents  == 2      \* filesystem notifications explored
MaxIpc     == 1      \* commands the IPC server enqueues

\* ------------------------------------------------------------------ state
VARIABLES
    proc,          \* process status: "running" or the way it ended
    pc,            \* position of the main thread in initialize_server
    fd0,           \* what descriptors 0, 1, 2 were connected to when initialize_server was entered
    fd,            \* what descriptors 0, 1, 2 are connected to now
    detachRes,     \* outcome of do_detach: "none", "Ok", "Err", "Panic", "ParentExit"
    detachFail,    \* the step of do_detach that failed, "none" if none did
    handler,       \* TRUE once the SIGINT/SIGTERM handler is installed (line 23)
    nSignals,      \* signals delivered so far
    lastSend,      \* result of the handler's latest send_exit call: "none", "ok", "fail"
    exitSignaled,  \* ExitSignal: TRUE once send_exit has succeeded
    recv,          \* ui_recv: "none" (not created), "open", "closed"
    queue,         \* commands in the UI queue, oldest first
    applying,      \* commands whose handle_command has started and not returned
    applied,       \* per producer, the commands whose handle_command has returned, in order
    uiSpawned,     \* TRUE once the UI loop future is spawned (line 68)
    worker,        \* worker thread: "none", "starting", "joining", "done", "panicked"
    svLogged,      \* TRUE once the supervisor logged "Eww exiting with error"
    fwPc,          \* run_filewatch: "none", "setup", "loop", "ok", "err", "cancelled"
    rx,            \* number of () messages pending in the tx/rx channel
    gate,          \* debounce_done: TRUE = open
    timers,        \* pending reopen timers (spawned sleep tasks)
    awaiting,      \* reloads whose response-awaiting task is alive
    responses,     \* reloads answered (or their sender dropped) and not yet seen by their awaiting task
    nEvents,       \* notifications delivered to the watcher callback
    lastEv,        \* the last notification: its kind, relevance and whether forwarded
    reloads,       \* ReloadConfigAndCss commands enqueued by the watcher
    reopens,       \* reopen timers that have fired
    probe,         \* reloads when a relevant event met an open, reopened gate; -1 if none
    ipcPc,         \* ipc_server::run_server: "none", "running", "ok", "err"
    nIpc,          \* commands enqueued by the IPC server
    fwdPc,         \* exit forwarder: "none", "start", "wait", "done"
    fwdResumes,    \* times the forwarder resumed from recv_exit
    fwdLog,        \* messages the forwarder task has written to the log
    killByFwd      \* KillServer commands the forwarder enqueued

vars == << proc, pc, fd0, fd, detachRes, detachFail, handler, nSignals, lastSend,
           exitSignaled, recv, queue, applying, applied, uiSpawned, worker, svLogged,
           fwPc, rx, gate, timers, awaiting, responses, nEvents, lastEv, reloads,
           reopens, probe, ipcPc, nIpc, fwdPc, fwdResumes, fwdLog, killByFwd >>

mainVars  == << pc, detachRes, detachFail, handler, uiSpawned >>
fdVars    == << fd0, fd >>
sigVars   == << nSignals, lastSend, exitSignaled >>
uiVars    == << applying, applied >>
fwVars    == << fwPc, rx, gate, timers, awaiting, responses, reloads, reopens >>
evVars    == << nEvents, lastEv, probe >>
ipcVars   == << ipcPc, nIpc >>
fwdVars   == << fwdPc, fwdResumes, fwdLog, killByFwd >>
svVars    == << worker, svLogged >>

\* ----------------------------------------------------------- descriptors
\* What a descriptor can be connected to.  "tty" is a live terminal, "hungtty"
\* a terminal that has hung up (a pty slave whose master is closed), "pipe" a
\* pipe, socket or regular file, "null" /dev/null, "urandom" a character
\* device that rejects the terminal ioctl (/dev/urandom), "log" the log file,
\* "closed" a descriptor number that is free.
FdTargets == {"tty", "hungtty", "pipe", "null", "urandom", "log", "closed"}

\* What descriptors 0, 1 and 2 are connected to when initialize_server is
\* entered: the runtime has opened /dev/null on every one that was closed when
\* the process was started, so none is closed.
EntryTargets == {"tty", "hungtty", "pipe", "null", "urandom"}

\* nix::unistd::isatty: Ok(true) on a terminal, Ok(false) when the terminal
\* ioctl fails with ENOTTY (pipe, file, socket, /dev/null), Err on any other
\* errno: EBADF on a closed descriptor, EIO on a hung-up terminal, EINVAL on
\* /dev/urandom
isatty(target) ==
    CASE target = "tty"                               -> "true"
      [] target \in {"closed", "hungtty", "urandom"} -> "err"
      [] OTHER                                        -> "false"

\* The descriptor number open() returns for the log file: the lowest free one.
\* Only the numbers 0, 1 and 2 matter; 3 stands for any higher number.
lowest_free(f) ==
    IF f[0] = "closed" THEN 0
    ELSE IF f[1] = "closed" THEN 1
    ELSE IF f[2] = "closed" THEN 2
    ELSE 3

\* do_detach, lines 165-189.  f is what descriptors 0, 1, 2 are connected to,
\* forkRes what fork() gives this process, openOk whether the log file opens,
\* dupOk[n] whether dup2 onto descriptor n succeeds.  The log file is opened
\* before the isatty checks and `file` is dropped (its descriptor closed) when
\* the function returns.
do_detach_bad(f, forkRes, openOk, dupOk) ==
    IF forkRes = "Err" THEN [res |-> "Err", fail |-> "fork", fd |-> f]
    ELSE IF forkRes = "Parent" THEN [res |-> "ParentExit", fail |-> "none", fd |-> f]
    ELSE IF ~openOk THEN [res |-> "Panic", fail |-> "open", fd |-> f]
    ELSE LET n == lowest_free(f)
             fo == IF n <= 2 THEN [f EXCEPT ![n] = "log"] ELSE f
             drop(g) == IF n <= 2 THEN [g EXCEPT ![n] = "closed"] ELSE g
         IN IF isatty(fo[1]) = "err"
               THEN [res |-> "Err", fail |-> "isatty", fd |-> drop(fo)]
            ELSE IF ~dupOk[1]
               THEN [res |-> "Err", fail |-> "dup2", fd |-> drop(fo)]
            ELSE LET f1 == [fo EXCEPT ![1] = "log"] IN
                 IF isatty(f1[2]) = "err"
                    THEN [res |-> "Err", fail |-> "isatty", fd |-> drop(f1)]
                 ELSE IF isatty(f1[2]) = "true" /\ ~dupOk[2]
                    THEN [res |-> "Err", fail |-> "dup2", fd |-> drop(f1)]
                 ELSE [res |-> "Ok", fail |-> "none",
                       fd |-> drop(IF isatty(f1[2]) = "true"
                                   THEN [f1 EXCEPT ![2] = "log"] ELSE f1)]

do_detach(f, forkRes, openOk, dupOk) ==
    IF forkRes = "Err" THEN [res |-> "Err", fail |-> "fork", fd |-> f]
    ELSE IF forkRes = "Parent" THEN [res |-> "ParentExit", fail |-> "none", fd |-> f]
    ELSE IF ~openOk THEN [res |-> "Panic", fail |-> "open", fd |-> f]
    ELSE LET n == lowest_free(f)
             fo == IF n <= 2 THEN [f EXCEPT ![n] = "log"] ELSE f
             drop(g) == IF n <= 2 THEN [g EXCEPT ![n] = "closed"] ELSE g
         IN IF isatty(fo[1]) = "err"
               THEN [res |-> "Err", fail |-> "isatty", fd |-> drop(fo)]
            ELSE IF isatty(fo[1]) = "true" /\ ~dupOk[1]
               THEN [res |-> "Err", fail |-> "dup2", fd |-> drop(fo)]
            ELSE LET f1 == IF isatty(fo[1]) = "true" THEN [fo EXCEPT ![1] = "log"] ELSE fo IN
                 IF isatty(f1[2]) = "err"
                    THEN [res |-> "Err", fail |-> "isatty", fd |-> drop(f1)]
                 ELSE IF isatty(f1[2]) = "true" /\ ~dupOk[2]
                    THEN [res |-> "Err", fail |-> "dup2", fd |-> drop(f1)]
                 ELSE [res |-> "Ok", fail |-> "none",
                       fd |-> drop(IF isatty(f1[2]) = "true"
                                   THEN [f1 EXCEPT ![2] = "log"] ELSE f1)]

\* println! of lines 15-21 writes to descriptor 1 and panics when the write
\* fails.  A write to a terminal (hung up or not), to a pipe whose reader has
\* gone or to a file on a full disk can fail; a write to /dev/null or to
\* /dev/urandom cannot, and the standard output handle takes a write to a
\* closed descriptor as done.
stdout_write_can_fail(target) == target \in {"tty", "hungtty", "pipe", "log"}

\* ------------------------------------------------------------------- Init
\* The tasks that send on ui_send: run_filewatch, run_server, the forwarder.
Producers == {"fw", "ipc", "fwd"}

NoEvent == [kind |-> "none", relevant |-> FALSE, fwd |-> FALSE, logged |-> FALSE]

\* Everything but the descriptors the process is started with.
InitRest ==
    /\ proc = "running"
    /\ pc = "detach"
    /\ detachRes = "none"
    /\ detachFail = "none"
    /\ handler = FALSE
    /\ nSignals = 0
    /\ lastSend = "none"
    /\ exitSignaled = FALSE
    /\ recv = "none"
    /\ queue = << >>
    /\ applying = {}
    /\ applied = [p \in Producers |-> << >>]
    /\ uiSpawned = FALSE
    /\ worker = "none"
    /\ svLogged = FALSE
    /\ fwPc = "none"
    /\ rx = 0
    /\ gate = TRUE
    /\ timers = 0
    /\ awaiting = {}
    /\ responses = {}
    /\ nEvents = 0
    /\ lastEv = NoEvent
    /\ reloads = 0
    /\ reopens = 0
    /\ probe = -1
    /\ ipcPc = "none"
    /\ nIpc = 0
    /\ fwdPc = "none"
    /\ fwdResumes = 0
    /\ fwdLog = {}
    /\ killByFwd = 0

\* The daemon started from a terminal.  The descriptors are read by do_detach
\* and by the println! after it only; StartupSpec below starts from every
\* combination of them.
Init ==
    /\ fd0 = [n \in {0, 1, 2} |-> "tty"]
    /\ fd = fd0
    /\ InitRest

InitAnyFd ==
    /\ fd0 \in [{0, 1, 2} -> EntryTargets]
    /\ fd = fd0
    /\ InitRest

\* ------------------------------------------- initialize_server, main thread
\* A failing `?` in initialize_server: the function returns Err, dropping ui_recv
\* if it exists, and the process ends.
ReturnErr ==
    /\ proc' = "ret_err"
    /\ recv' = IF recv = "open" THEN "closed" ELSE recv

\* line 13: do_detach(&paths.get_log_file())?
DoDetach ==
    /\ proc = "running" /\ pc = "detach"
    /\ \E forkRes \in {"Parent", "Child", "Err"}, openOk \in BOOLEAN,
          dupOk \in [{1, 2} -> BOOLEAN] :
         LET r == do_detach(fd, forkRes, openOk, dupOk) IN
           /\ fd' = r.fd
           /\ detachRes' = r.res
           /\ detachFail' = r.fail
           /\ proc' = CASE r.res = "Ok"         -> "running"
                        [] r.res = "Err"        -> "ret_err"
                        [] r.res = "Panic"      -> "panic"
                        [] r.res = "ParentExit" -> "parent_exit0"
           /\ pc' = IF r.res = "Ok" THEN "banner" ELSE pc
    /\ UNCHANGED << fd0, handler, uiSpawned, recv, queue >>
    /\ UNCHANGED << sigVars, uiVars, fwVars, evVars, ipcVars, fwdVars, svVars >>

\* lines 15-21: the banner is printed on standard output
PrintBanner ==
    /\ proc = "running" /\ pc = "banner"
    /\ \E ok \in IF stdout_write_can_fail(fd[1]) THEN BOOLEAN ELSE {TRUE} :
         IF ok THEN /\ pc' = "set_handler"
                    /\ UNCHANGED proc
               ELSE /\ proc' = "panic"
                    /\ UNCHANGED pc
    /\ UNCHANGED << detachRes, detachFail, handler, uiSpawned, recv, queue >>
    /\ UNCHANGED << fdVars, sigVars, uiVars, fwVars, evVars, ipcVars, fwdVars, svVars >>

SetHandler_early ==
    /\ proc = "running" /\ pc = "detach" /\ ~handler
    /\ handler' = TRUE
    /\ UNCHANGED << pc, proc, detachRes, detachFail, uiSpawned, recv, queue >>
    /\ UNCHANGED << fdVars, sigVars, uiVars, fwVars, evVars, ipcVars, fwdVars, svVars >>

\* lines 23-29: simple_signal::set_handler
SetHandler ==
    /\ proc = "running" /\ pc = "set_handler"
    /\ handler' = TRUE
    /\ pc' = "channel"
    /\ UNCHANGED << proc, detachRes, detachFail, uiSpawned, recv, queue >>
    /\ UNCHANGED << fdVars, sigVars, uiVars, fwVars, evVars, ipcVars, fwdVars, svVars >>

\* line 30: the UI command queue
CreateQueue ==
    /\ proc = "running" /\ pc = "channel"
    /\ recv' = "open"
    /\ pc' = "chdir"
    /\ UNCHANGED << proc, detachRes, detachFail, handler, uiSpawned, queue >>
    /\ UNCHANGED << fdVars, sigVars, uiVars, fwVars, evVars, ipcVars, fwdVars, svVars >>

\* A fallible startup step between the queue's creation and init_async_part.
StartupStep(at, next) ==
    /\ proc = "running" /\ pc = at
    /\ \E ok \in BOOLEAN :
         IF ok THEN /\ pc' = next
                    /\ UNCHANGED << proc, recv >>
               ELSE /\ ReturnErr
                    /\ UNCHANGED pc
    /\ UNCHANGED << detachRes, detachFail, handler, uiSpawned, queue >>
    /\ UNCHANGED << fdVars, sigVars, uiVars, fwVars, evVars, ipcVars, fwdVars, svVars >>

\* lines 32-33: std::env::set_current_dir(..)?
ChangeDir == StartupStep("chdir", "config")

\* lines 38-40: EwwConfig::read_from_file(..)?
LoadConfig == StartupStep("config", "gtk")

\* line 42: gtk::init()?
GtkInit == StartupStep("gtk", "app")

\* lines 45-63: script var handler, generate_initial_state()?, load_css(..)?
BuildApp == StartupStep("app", "async")

\* lines 66, 81: init_async_part spawns the worker thread; std::thread::spawn
\* panics, on the main thread, when the thread cannot be created
InitAsyncPart ==
    /\ proc = "running" /\ pc = "async"
    /\ \E spawned \in BOOLEAN :
         IF spawned THEN /\ worker' = "starting"
                         /\ pc' = "spawn_ui"
                         /\ UNCHANGED proc
                    ELSE /\ proc' = "panic"
                         /\ UNCHANGED << worker, pc >>
    /\ UNCHANGED << detachRes, detachFail, handler, uiSpawned, recv, queue, svLogged >>
    /\ UNCHANGED << fdVars, sigVars, uiVars, fwVars, evVars, ipcVars, fwdVars >>

\* lines 68-72: the UI loop future is spawned on the glib main context
SpawnUiLoop ==
    /\ proc = "running" /\ pc = "spawn_ui"
    /\ uiSpawned' = TRUE
    /\ pc' = "main"
    /\ UNCHANGED << proc, detachRes, detachFail, handler, recv, queue >>
    /\ UNCHANGED << fdVars, sigVars, uiVars, fwVars, evVars, ipcVars, fwdVars, svVars >>

\* lines 75-77: gtk::main() has returned; initialize_server returns Ok and the
\* process ends.  ui_recv lives in the future given to the main context and is
\* not dropped.
MainReturn ==
    /\ proc = "running" /\ pc = "finish"
    /\ proc' = "exit0"
    /\ UNCHANGED << pc, detachRes, detachFail, handler, uiSpawned, recv, queue >>
    /\ UNCHANGED << fdVars, sigVars, uiVars, fwVars, evVars, ipcVars, fwdVars, svVars >>

\* ---------------------------------------------------------------- signals
\* application_lifecycle::send_exit: on success the exit signal is (and stays)
\* signaled
send_exit(ok) == IF ok THEN TRUE ELSE exitSignaled

Signal_noexit ==
    /\ proc = "running"
    /\ nSignals < MaxSignals
    /\ nSignals' = nSignals + 1
    /\ IF ~handler
          THEN /\ proc' = "killed"
               /\ UNCHANGED << lastSend, exitSignaled >>
          ELSE \E ok \in BOOLEAN :
                 /\ exitSignaled' = send_exit(ok)
                 /\ lastSend' = IF ok THEN "ok" ELSE "fail"
                 /\ UNCHANGED proc
    /\ UNCHANGED << recv, queue >>
    /\ UNCHANGED << mainVars, fdVars, uiVars, fwVars, evVars, ipcVars, fwdVars, svVars >>

\* A SIGINT or SIGTERM.  Before line 23 the default disposition ends the
\* process; afterwards the handler of lines 23-29 runs.
Signal ==
    /\ proc = "running"
    /\ nSignals < MaxSignals
    /\ nSignals' = nSignals + 1
    /\ IF ~handler
          THEN /\ proc' = "killed"
               /\ UNCHANGED << lastSend, exitSignaled >>
          ELSE \E ok \in BOOLEAN :
                 /\ exitSignaled' = send_exit(ok)
                 /\ lastSend' = IF ok THEN "ok" ELSE "fail"
                 /\ proc' = IF ok THEN proc ELSE "exit1"
    /\ UNCHANGED << recv, queue >>
    /\ UNCHANGED << mainVars, fdVars, uiVars, fwVars, evVars, ipcVars, fwdVars, svVars >>

\* ------------------------------------------------------------ UI commands
Cmd(src, seq, kind) == [src |-> src, seq |-> seq, kind |-> kind]

\* UnboundedSender::send: appends while the receiver is open, fails otherwise
SendOk == recv = "open"

\* ----------------------------------------------- init_async_part, lines 80-113
\* lines 82-104: the runtime is built and the three tasks are spawned.  When
\* the runtime cannot be built the `.expect` of line 82 panics the worker
\* thread: the thread ends with no task spawned and the process goes on
\* without it.
WorkerStart ==
    /\ proc = "running" /\ worker = "starting"
    /\ \E built \in BOOLEAN :
         IF built THEN /\ worker' = "joining"
                       /\ fwPc' = "setup"
                       /\ ipcPc' = "running"
                       /\ fwdPc' = "start"
                  ELSE /\ worker' = "panicked"
                       /\ UNCHANGED << fwPc, ipcPc, fwdPc >>
    /\ UNCHANGED << proc, recv, queue, svLogged, nIpc, fwdResumes, fwdLog, killByFwd >>
    /\ UNCHANGED << rx, gate, timers, awaiting, responses, reloads, reopens >>
    /\ UNCHANGED << mainVars, fdVars, sigVars, uiVars, evVars >>

\* What awaiting a JoinHandle gives: the task's return value wrapped in Ok, an
\* error of run_filewatch or run_server included; Err(JoinError) only if the
\* task panicked or was cancelled.
JoinResult(taskPc) ==
    CASE taskPc \in {"ok", "err", "done"}    -> "Ok"
      [] taskPc \in {"panicked", "cancelled"} -> "JoinErr"
      [] OTHER                                -> "Pending"

\* tokio::try_join! over the three join handles, line 106
try_join(a, b, c) ==
    IF "JoinErr" \in {a, b, c} THEN "Err"
    ELSE IF {a, b, c} = {"Ok"} THEN "Ok"
    ELSE "Pending"

\* lines 106-111: the join completes; an Err result is logged; block_on returns
\* and the runtime is dropped, which cancels every task still on it (the
\* supervised tasks that have not ended, the timers, the awaiting tasks) and
\* drops the watcher with run_filewatch; the thread ends
SupervisorJoin ==
    /\ proc = "running" /\ worker = "joining"
    /\ LET result == try_join(JoinResult(fwPc), JoinResult(ipcPc), JoinResult(fwdPc)) IN
         /\ result # "Pending"
         /\ svLogged' = (result = "Err")
    /\ worker' = "done"
    /\ fwPc' = IF fwPc \in {"setup", "loop"} THEN "cancelled" ELSE fwPc
    /\ ipcPc' = IF ipcPc = "running" THEN "cancelled" ELSE ipcPc
    /\ fwdPc' = IF fwdPc \in {"start", "wait"} THEN "cancelled" ELSE fwdPc
    /\ timers' = 0
    /\ awaiting' = {}
    /\ responses' = {}
    /\ UNCHANGED << proc, recv, queue, rx, gate, reloads, reopens >>
    /\ UNCHANGED << nIpc, fwdResumes, fwdLog, killByFwd >>
    /\ UNCHANGED << mainVars, fdVars, sigVars, uiVars, evVars >>

\* ------------------------------------------------ run_filewatch, lines 116-162
\* lines 119-137: the watcher is created and the directory registered
FwSetup ==
    /\ proc = "running" /\ fwPc = "setup"
    /\ \E r \in {"ok", "new_fail", "watch_fail"} :
         fwPc' = IF r = "ok" THEN "loop" ELSE "err"
    /\ UNCHANGED << proc, recv, queue, rx, gate, timers, awaiting, responses, reloads, reopens >>
    /\ UNCHANGED << mainVars, fdVars, sigVars, uiVars, evVars, ipcVars, fwdVars, svVars >>

\* A path is modelled by what Path::extension gives for it.
Extensions == {"yuck", "scss", "txt", "none"}

\* path.extension().unwrap_or_default(), line 123
unwrap_or_default(ext) == IF ext = "none" THEN "" ELSE ext

\* lines 122-125
relevant_files_changed(paths) ==
    \E i \in DOMAIN paths :
        LET ext == unwrap_or_default(paths[i]) IN ext = "yuck" \/ ext = "scss"

\* line 126: the condition under which the callback forwards the event
forwards(paths) == ~relevant_files_changed(paths)

EventPaths ==
    { << >> } \cup { << e >> : e \in Extensions } \cup { << "txt", "yuck" >>, << "txt", "none" >> }

Notifications ==
    { [kind |-> "Err", paths |-> << >>] } \cup { [kind |-> "Ok", paths |-> p] : p \in EventPaths }

Notify_err_forwards ==
    /\ proc = "running" /\ fwPc = "loop"
    /\ nEvents < MaxEvents
    /\ nEvents' = nEvents + 1
    /\ \E ev \in Notifications :
         LET rel == ev.kind = "Ok" /\ relevant_files_changed(ev.paths)
             fwd == forwards(ev.paths)
         IN /\ rx' = IF fwd THEN rx + 1 ELSE rx
            /\ lastEv' = [kind |-> ev.kind, relevant |-> rel, fwd |-> fwd,
                          logged |-> ev.kind = "Err"]
            /\ probe' = IF rel /\ gate /\ rx = 0 /\ timers = 0 /\ reopens > 0
                        THEN reloads ELSE -1
    /\ UNCHANGED << proc, recv, queue, fwPc, gate, timers, awaiting, responses, reloads, reopens >>
    /\ UNCHANGED << mainVars, fdVars, sigVars, uiVars, ipcVars, fwdVars, svVars >>

\* lines 120-133: the notify callback, run for every notification while the
\* watcher is alive; an Err notification is only logged (line 132)
Notify ==
    /\ proc = "running" /\ fwPc = "loop"
    /\ nEvents < MaxEvents
    /\ nEvents' = nEvents + 1
    /\ \E ev \in Notifications :
         LET rel == ev.kind = "Ok" /\ relevant_files_changed(ev.paths)
             fwd == ev.kind = "Ok" /\ forwards(ev.paths)
         IN /\ rx' = IF fwd THEN rx + 1 ELSE rx
            /\ lastEv' = [kind |-> ev.kind, relevant |-> rel, fwd |-> fwd,
                          logged |-> ev.kind = "Err"]
            /\ probe' = IF rel /\ gate /\ rx = 0 /\ timers = 0 /\ reopens > 0
                        THEN reloads ELSE -1
    /\ UNCHANGED << proc, recv, queue, fwPc, gate, timers, awaiting, responses, reloads, reopens >>
    /\ UNCHANGED << mainVars, fdVars, sigVars, uiVars, ipcVars, fwdVars, svVars >>

\* crate::loop_select_exiting! of line 139.  The macro is defined outside this
\* file, so whether the loop it builds has an arm of its own that leaves the
\* loop once the exit signal is signaled cannot be read here: the answers it
\* can give are both kept.  Before the exit signal the loop is not left.
loop_select_exiting_breaks(exit) == IF exit THEN {TRUE, FALSE} ELSE {FALSE}

FwHandle_blocking ==
    /\ proc = "running" /\ fwPc = "loop"
    /\ \E brk \in loop_select_exiting_breaks(exitSignaled) :
         IF brk
            THEN /\ fwPc' = "ok"
                 /\ UNCHANGED << rx, gate, timers, queue, reloads, awaiting >>
            ELSE /\ rx > 0
                 /\ awaiting = {}
                 /\ rx' = rx - 1
                 /\ IF gate
                       THEN /\ gate' = FALSE
                            /\ timers' = timers + 1
                            /\ IF SendOk
                                  THEN /\ queue' = Append(queue, Cmd("fw", reloads + 1, "ReloadConfigAndCss"))
                                       /\ reloads' = reloads + 1
                                       /\ awaiting' = awaiting \cup {reloads + 1}
                                       /\ UNCHANGED fwPc
                                  ELSE /\ fwPc' = "err"
                                       /\ UNCHANGED << queue, reloads, awaiting >>
                       ELSE UNCHANGED << gate, timers, queue, reloads, awaiting, fwPc >>
    /\ UNCHANGED << proc, recv, reopens, responses >>
    /\ UNCHANGED << mainVars, fdVars, sigVars, uiVars, evVars, ipcVars, fwdVars, svVars >>

FwHandle_extend ==
    /\ proc = "running" /\ fwPc = "loop"
    /\ \E brk \in loop_select_exiting_breaks(exitSignaled) :
         IF brk
            THEN /\ fwPc' = "ok"
                 /\ UNCHANGED << rx, gate, timers, queue, reloads, awaiting >>
            ELSE /\ rx > 0
                 /\ rx' = rx - 1
                 /\ IF gate
                       THEN /\ gate' = FALSE
                            /\ timers' = timers + 1
                            /\ IF SendOk
                                  THEN /\ queue' = Append(queue, Cmd("fw", reloads + 1, "ReloadConfigAndCss"))
                                       /\ reloads' = reloads + 1
                                       /\ awaiting' = awaiting \cup {reloads + 1}
                                       /\ UNCHANGED fwPc
                                  ELSE /\ fwPc' = "err"
                                       /\ UNCHANGED << queue, reloads, awaiting >>
                       ELSE /\ timers' = timers + 1
                            /\ UNCHANGED << gate, queue, reloads, awaiting, fwPc >>
    /\ UNCHANGED << proc, recv, reopens, responses >>
    /\ UNCHANGED << mainVars, fdVars, sigVars, uiVars, evVars, ipcVars, fwdVars, svVars >>

\* lines 139-161: one iteration of the watcher loop.  The loop takes the next
\* forwarded event; it ends with the `?` of line 149 or, if the macro has it
\* so, by leaving the loop on the exit signal and returning Ok (line 161).
FwHandle ==
    /\ proc = "running" /\ fwPc = "loop"
    /\ \E brk \in loop_select_exiting_breaks(exitSignaled) :
         IF brk
            THEN /\ fwPc' = "ok"
                 /\ UNCHANGED << rx, gate, timers, queue, reloads, awaiting >>
            ELSE /\ rx > 0
                 /\ rx' = rx - 1
                 /\ IF gate
                       THEN /\ gate' = FALSE
                            /\ timers' = timers + 1
                            /\ IF SendOk
                                  THEN /\ queue' = Append(queue, Cmd("fw", reloads + 1, "ReloadConfigAndCss"))
                                       /\ reloads' = reloads + 1
                                       /\ awaiting' = awaiting \cup {reloads + 1}
                                       /\ UNCHANGED fwPc
                                  ELSE /\ fwPc' = "err"
                                       /\ UNCHANGED << queue, reloads, awaiting >>
                       ELSE UNCHANGED << gate, timers, queue, reloads, awaiting, fwPc >>
    /\ UNCHANGED << proc, recv, reopens, responses >>
    /\ UNCHANGED << mainVars, fdVars, sigVars, uiVars, evVars, ipcVars, fwdVars, svVars >>

TimerFire_nostore ==
    /\ proc = "running"
    /\ timers > 0
    /\ timers' = timers - 1
    /\ gate' = gate
    /\ reopens' = reopens + 1
    /\ UNCHANGED << proc, recv, queue, fwPc, rx, awaiting, responses, reloads >>
    /\ UNCHANGED << mainVars, fdVars, sigVars, uiVars, evVars, ipcVars, fwdVars, svVars >>

\* lines 143-146: a reopen timer expires
TimerFire ==
    /\ proc = "running"
    /\ timers > 0
    /\ timers' = timers - 1
    /\ gate' = TRUE
    /\ reopens' = reopens + 1
    /\ UNCHANGED << proc, recv, queue, fwPc, rx, awaiting, responses, reloads >>
    /\ UNCHANGED << mainVars, fdVars, sigVars, uiVars, evVars, ipcVars, fwdVars, svVars >>

\* lines 150-156: an awaiting task receives the answer to its reload (or finds
\* the sender dropped), logs the matching message and ends
AwaitResponse ==
    /\ proc = "running"
    /\ \E seq \in responses \cap awaiting :
         /\ awaiting' = awaiting \ {seq}
         /\ responses' = responses \ {seq}
    /\ UNCHANGED << proc, recv, queue, fwPc, rx, gate, timers, reloads, reopens >>
    /\ UNCHANGED << mainVars, fdVars, sigVars, uiVars, evVars, ipcVars, fwdVars, svVars >>

\* ------------------------------------------------- IPC server, lines 90-93
\* The server enqueues one command for a request it honours.
IpcEnqueue ==
    /\ proc = "running" /\ ipcPc = "running"
    /\ nIpc < MaxIpc
    /\ nIpc' = nIpc + 1
    /\ \E kind \in {"Other", "KillServer"} :
         queue' = IF SendOk THEN Append(queue, Cmd("ipc", nIpc + 1, kind)) ELSE queue
    /\ UNCHANGED << proc, recv, ipcPc >>
    /\ UNCHANGED << mainVars, fdVars, sigVars, uiVars, fwVars, evVars, fwdVars, svVars >>

\* run_server returns, with Ok or with an error
IpcReturn ==
    /\ proc = "running" /\ ipcPc = "running"
    /\ \E r \in {"ok", "err"} : ipcPc' = r
    /\ UNCHANGED << proc, recv, queue, nIpc >>
    /\ UNCHANGED << mainVars, fdVars, sigVars, uiVars, fwVars, evVars, fwdVars, svVars >>

\* ---------------------------------------------- exit forwarder, lines 95-104
\* application_lifecycle::recv_exit: ready once the exit signal is signaled
recv_exit_ready == exitSignaled

\* line 99: the task starts and waits for the exit signal
ForwarderStart ==
    /\ proc = "running" /\ fwdPc = "start"
    /\ fwdPc' = "wait"
    /\ UNCHANGED << proc, recv, queue, fwdResumes, fwdLog, killByFwd >>
    /\ UNCHANGED << mainVars, fdVars, sigVars, uiVars, fwVars, evVars, ipcVars, svVars >>

ForwarderForward_again ==
    /\ proc = "running" /\ fwdPc = "wait"
    /\ recv_exit_ready
    /\ fwdResumes' = fwdResumes + 1
    /\ fwdLog' = fwdLog \cup {"Forward task received exit event"}
    /\ IF SendOk
          THEN /\ queue' = Append(queue, Cmd("fwd", killByFwd + 1, "KillServer"))
               /\ killByFwd' = killByFwd + 1
          ELSE UNCHANGED << queue, killByFwd >>
    /\ fwdPc' = "wait"
    /\ UNCHANGED << proc, recv >>
    /\ UNCHANGED << mainVars, fdVars, sigVars, uiVars, fwVars, evVars, ipcVars, svVars >>

\* lines 99-102: the wait returns, "Forward task received exit event" is
\* logged, KillServer is sent (`let _ =`: a failed send is dropped without a
\* message) and the task ends
ForwarderForward ==
    /\ proc = "running" /\ fwdPc = "wait"
    /\ recv_exit_ready
    /\ fwdResumes' = fwdResumes + 1
    /\ fwdLog' = fwdLog \cup {"Forward task received exit event"}
    /\ IF SendOk
          THEN /\ queue' = Append(queue, Cmd("fwd", killByFwd + 1, "KillServer"))
               /\ killByFwd' = killByFwd + 1
          ELSE UNCHANGED << queue, killByFwd >>
    /\ fwdPc' = "done"
    /\ UNCHANGED << proc, recv >>
    /\ UNCHANGED << mainVars, fdVars, sigVars, uiVars, fwVars, evVars, ipcVars, svVars >>

\* ------------------------------------------------------ UI loop, lines 68-74
\* app.handle_command: what applying a command does to the daemon.  A reload is
\* answered with Success or Failure, or its response sender is dropped.
ReloadResponses == {"Success", "Failure", "None"}

\* Applying KillServer asks the GTK main loop to quit.
handle_command_quits(c) == c.kind = "KillServer"

UIRecv_concurrent ==
    /\ proc = "running" /\ pc \in {"main", "quitting"} /\ uiSpawned
    /\ recv = "open"
    /\ queue # << >>
    /\ applying' = applying \cup {Head(queue)}
    /\ queue' = Tail(queue)
    /\ UNCHANGED << proc, recv, applied >>
    /\ UNCHANGED << mainVars, fdVars, sigVars, fwVars, evVars, ipcVars, fwdVars, svVars >>

\* lines 69-70: ui_recv.recv() yields the next command and handle_command
\* starts.  The loop goes on after a KillServer for as long as commands are
\* queued: the main loop is left only when the future has yielded.
UIRecv ==
    /\ proc = "running" /\ pc \in {"main", "quitting"} /\ uiSpawned
    /\ recv = "open"
    /\ applying = {}
    /\ queue # << >>
    /\ applying' = applying \cup {Head(queue)}
    /\ queue' = Tail(queue)
    /\ UNCHANGED << proc, recv, applied >>
    /\ UNCHANGED << mainVars, fdVars, sigVars, fwVars, evVars, ipcVars, fwdVars, svVars >>

\* line 70: handle_command returns.  A reload has answered on its response
\* channel or dropped the sender, which the awaiting task, if alive, will
\* see; KillServer has asked the main loop to quit.  ui_recv stays open.
UIReturn ==
    /\ proc = "running" /\ pc \in {"main", "quitting"}
    /\ \E c \in applying :
         /\ applying' = applying \ {c}
         /\ applied' = [applied EXCEPT ![c.src] = Append(@, c)]
         /\ IF c.kind = "ReloadConfigAndCss" /\ c.seq \in awaiting
               THEN \E resp \in ReloadResponses :
                      responses' = responses \cup {c.seq}
               ELSE UNCHANGED responses
         /\ pc' = IF handle_command_quits(c) THEN "quitting" ELSE pc
    /\ UNCHANGED << proc, recv, queue, detachRes, detachFail, handler, uiSpawned >>
    /\ UNCHANGED << fwPc, rx, gate, timers, awaiting, reloads, reopens >>
    /\ UNCHANGED << fdVars, sigVars, evVars, ipcVars, fwdVars, svVars >>

\* line 74: gtk::main() returns once quitting was asked and the UI loop future
\* has yielded, having found the queue empty
GtkMainReturn ==
    /\ proc = "running" /\ pc = "quitting"
    /\ applying = {} /\ queue = << >>
    /\ pc' = "finish"
    /\ UNCHANGED << proc, detachRes, detachFail, handler, uiSpawned, recv, queue >>
    /\ UNCHANGED << fdVars, sigVars, uiVars, fwVars, evVars, ipcVars, fwdVars, svVars >>

\* ------------------------------------------------------------ specification
Next ==
    \/ DoDetach
    \/ PrintBanner
    \/ SetHandler
    \/ CreateQueue
    \/ ChangeDir
    \/ LoadConfig
    \/ GtkInit
    \/ BuildApp
    \/ InitAsyncPart
    \/ SpawnUiLoop
    \/ MainReturn
    \/ Signal
    \/ WorkerStart
    \/ SupervisorJoin
    \/ FwSetup
    \/ Notify
    \/ FwHandle
    \/ TimerFire
    \/ AwaitResponse
    \/ IpcEnqueue
    \/ IpcReturn
    \/ ForwarderStart
    \/ ForwarderForward
    \/ UIRecv
    \/ UIReturn
    \/ GtkMainReturn

Spec == Init /\ [][Next]_vars

\* The steps of one thread or task; at most one of them is enabled at a time.
MainThread ==
    \/ DoDetach \/ PrintBanner \/ SetHandler \/ CreateQueue \/ ChangeDir \/ LoadConfig
    \/ GtkInit \/ BuildApp \/ InitAsyncPart \/ SpawnUiLoop \/ UIRecv \/ UIReturn
    \/ GtkMainReturn \/ MainReturn

WorkerThread == WorkerStart \/ SupervisorJoin

FilewatchTask == FwSetup \/ FwHandle

ForwarderTask == ForwarderStart \/ ForwarderForward

\* The program's own threads, tasks and timers are scheduled fairly; signals,
\* filesystem notifications and IPC requests come from outside and need not occur.
Fairness ==
    /\ WF_vars(MainThread)
    /\ WF_vars(WorkerThread)
    /\ WF_vars(FilewatchTask)
    /\ WF_vars(ForwarderTask)
    /\ WF_vars(TimerFire)
    /\ WF_vars(AwaitResponse)

LiveSpec == Spec /\ Fairness

\* initialize_server up to the point where the worker thread is spawned, from
\* every combination of descriptors.
NextStartup ==
    \/ DoDetach
    \/ PrintBanner
    \/ SetHandler
    \/ CreateQueue
    \/ ChangeDir
    \/ LoadConfig
    \/ GtkInit
    \/ BuildApp
    \/ Signal

StartupSpec == InitAnyFd /\ [][NextStartup]_vars

\* ------------------------------------------------------------ properties
Running == proc = "running"

\* The watcher loop is alive, has consumed every forwarded event and can enqueue.
WatcherIdle == Running /\ fwPc = "loop" /\ rx = 0 /\ recv = "open"

\* A supervised task has returned an error.
TaskErr == fwPc = "err" \/ ipcPc = "err"

\* The UI queue can no longer take a command: the receiver is dropped (which
\* happens only when initialize_server returns an error) or the process has
\* ended.
QueueClosed == ~Running \/ recv = "closed"

\* A signal has been delivered to the installed handler.
SigHandled == nSignals > 0 /\ proc # "killed"

\* C1 - Debounce single-winner: once a burst of file events ending in a relevant
\* one has occurred, all of it within one cooldown window (no reopen timer has
\* fired yet), and the watcher loop has consumed what was forwarded, exactly
\* one ReloadConfigAndCss has been enqueued.
C1_SingleWinner ==
    (WatcherIdle /\ lastEv.relevant /\ reopens = 0) => reloads = 1

\* C2 - Debounce reopening: a relevant event that arrives after the cooldown has
\* elapsed (the gate reopened, no timer pending, nothing left to consume) makes
\* the watcher enqueue exactly one new ReloadConfigAndCss.
C2_ReloadAfterReopen ==
    (WatcherIdle /\ probe # -1) => reloads = probe + 1

\* C3 - Extension filter: the callback forwards an event to the debounce gate if
\* and only if at least one of its paths has the extension yuck or scss.
C3_ForwardIffRelevant ==
    lastEv.kind = "Ok" => (lastEv.fwd <=> lastEv.relevant)

\* C4 - Fail-fast supervision: when the supervisor has stopped waiting and a
\* supervised task had returned an error, the supervisor has logged the error.
C4_ErrorLogged ==
    (worker = "done" /\ TaskErr) => svLogged

\* C5 - Fatal runtime errors terminate the daemon: whenever a supervised task
\* has returned an error, the process eventually ends.
C5_ErrorTerminates ==
    [](TaskErr => <>(~Running))

\* C6 - Shutdown convergence: a signal delivered to the installed handler, at any
\* time, eventually leads to the forwarder enqueuing KillServer, unless the UI
\* queue is closed.
C6_ShutdownConvergence ==
    [](SigHandled => <>(killByFwd > 0 \/ QueueClosed))

FromFwd(c) == c.src = "fwd" /\ c.kind = "KillServer"

\* Commands of the forwarder that are in the queue, being applied or applied.
FwdCommands ==
    { c \in applying : FromFwd(c) }
      \cup { queue[i] : i \in { j \in DOMAIN queue : FromFwd(queue[j]) } }
      \cup { applied["fwd"][i] : i \in DOMAIN applied["fwd"] }

\* C7 - Idempotent shutdown: however many signals are delivered, the forwarder
\* resumes at most once and enqueues at most one KillServer; once it has
\* resumed with the queue open it has enqueued exactly one.
C7_ForwardOnce ==
    /\ fwdResumes <= 1
    /\ killByFwd <= 1
    /\ Cardinality(FwdCommands) = killByFwd
    /\ Cardinality({ i \in DOMAIN queue : FromFwd(queue[i]) }) <= 1
    /\ (fwdPc = "done" => fwdResumes = 1)
    /\ (fwdPc = "done" /\ recv = "open" => killByFwd = 1)

\* C7 witness: two signals were handled and the forwarder has forwarded once.
C7_Witness ==
    Running /\ nSignals >= 2 /\ exitSignaled /\ fwdPc = "done" /\ killByFwd = 1

\* C8 - No concurrent command application: at most one handle_command is in
\* progress; no command is applied twice; the commands of one producer are
\* applied in the order it enqueued them.
C8_SerialApplication ==
    /\ Cardinality(applying) <= 1
    /\ \A p \in Producers : \A i, j \in DOMAIN applied[p] :
         /\ applied[p][i].src = p
         /\ i < j => applied[p][i].seq < applied[p][j].seq
    /\ \A c \in applying : \A i \in DOMAIN applied[c.src] :
         applied[c.src][i].seq < c.seq

\* C8 witness: with three producers having enqueued, one command has been
\* applied, another is being applied and a third is waiting.
C8_Witness ==
    /\ (\E p \in Producers : applied[p] # << >>) /\ applying # {} /\ queue # << >>
    /\ reloads > 0 /\ nIpc > 0 /\ killByFwd > 0

\* C9 - Detach descriptor check: do_detach changes a descriptor only if it was a
\* terminal, and then to the log file; when do_detach returns Ok, descriptor 1
\* is redirected if and only if it was a terminal, and likewise descriptor 2.
C9_DescriptorCheck ==
    \A n \in {1, 2} :
       /\ fd[n] # fd0[n] => (fd0[n] = "tty" /\ fd[n] = "log")
       /\ detachRes = "Ok" => (fd[n] = "log" <=> fd0[n] = "tty")

\* C9 witness: do_detach returned Ok, leaving a piped standard output alone and
\* redirecting a terminal standard error.
C9_Witness ==
    /\ detachRes = "Ok"
    /\ fd0[1] = "pipe" /\ fd[1] = "pipe"
    /\ fd0[2] = "tty" /\ fd[2] = "log"

\* No component of the daemon beyond do_detach has been started.
NothingStarted ==
    /\ ~handler /\ recv = "none" /\ ~uiSpawned /\ worker = "none"
    /\ fwPc = "none" /\ ipcPc = "none" /\ fwdPc = "none"

\* C10 - Detach failures are returned as errors: a failure of fork, of opening
\* the log file or of dup2 makes do_detach return Err, and initialize_server
\* returns that error with nothing else started.
C10_DetachFailureIsErr ==
    detachFail \in {"fork", "open", "dup2"} =>
        (detachRes = "Err" /\ proc = "ret_err" /\ NothingStarted)

\* C11 - Daemonization ordering: until do_detach has run nothing else exists;
\* the parent of the fork exits with status 0 having executed no later startup
\* step; whatever is started later is started in the child, after do_detach
\* returned Ok.
C11_ForkFirst ==
    /\ detachRes = "none" => (NothingStarted /\ pc = "detach")
    /\ detachRes = "ParentExit" => (proc = "parent_exit0" /\ NothingStarted /\ pc = "detach")
    /\ ~NothingStarted => detachRes = "Ok"

\* C11 witness: the parent has exited with status 0 right after the fork.
C11_Witness ==
    detachRes = "ParentExit" /\ proc = "parent_exit0" /\ NothingStarted

\* The watcher could not be created or the watch could not be registered
\* (lines 120-134): run_filewatch returned Err before receiving any event.
FwSetupFailed == fwPc = "err" /\ nEvents = 0

\* A startup step named by C12 has failed.
StartupFailed ==
    \/ detachRes \in {"Err", "Panic"}
    \/ proc = "ret_err" /\ pc \in {"chdir", "config"}
    \/ FwSetupFailed

\* C12 - Fatal startup errors abort before the run loop: when detaching, the
\* change of directory, the initial configuration load or the watch
\* registration has failed, the UI loop has applied no command and is applying
\* none.
C12_StartupFailureAborts ==
    StartupFailed => ((\A p \in Producers : applied[p] = << >>) /\ applying = {})

\* C13 - Signal handling: every SIGINT or SIGTERM delivered while the handler
\* is installed calls send_exit; when that call fails the process ends with
\* exit status 1, and when it succeeds the handler leaves the process running.
C13_SignalHandling ==
    [][(nSignals' = nSignals + 1 /\ handler)
          => /\ lastSend' \in {"ok", "fail"}
             /\ lastSend' = "fail" => proc' = "exit1"
             /\ lastSend' = "ok" => proc' = proc]_vars

\* C13 witness: one signal was sent successfully and the process went on, a
\* second one failed to send and the process exited with status 1.
C13_Witness ==
    nSignals = 2 /\ handler /\ exitSignaled /\ lastSend = "fail" /\ proc = "exit1"

\* C15 - Per-event watcher errors are transient: the step in which the
\* notification source delivers an error logs it and does nothing else: no
\* event is forwarded to the loop, run_filewatch stays in its loop, the gate,
\* the timers, the reloads and the command queue are untouched, and the
\* callback stays installed for later events.
C15_EventErrorTransient ==
    [][(nEvents' = nEvents + 1 /\ lastEv'.kind = "Err")
          => /\ lastEv'.logged /\ ~lastEv'.fwd
             /\ proc' = "running" /\ fwPc' = "loop"
             /\ UNCHANGED << rx, gate, timers, reloads, reopens, awaiting, queue >>]_vars

\* C15 witness: an error notification arrived after an event that caused a
\* reload; the watcher is still in its loop.
C15_Witness ==
    Running /\ lastEv.kind = "Err" /\ lastEv.logged /\ fwPc = "loop" /\ reloads = 1

\* run_filewatch has ended: it returned or was cancelled.
FwEnded == fwPc \in {"ok", "err", "cancelled"}

\* C16 - Reload responses never block or stop the watcher: whatever the state
\* of the responses (some still pending or never arriving, others answered
\* with Success or Failure, seen by their awaiting task or not), run_filewatch
\* in its loop with an event waiting can take that event, and once it has
\* entered its loop run_filewatch has not ended unless the exit signal was
\* signaled and the loop was left on it.
C16_ResponsesNeverBlock ==
    /\ (Running /\ fwPc = "loop" /\ rx > 0) => ENABLED (FwHandle /\ rx' = rx - 1)
    /\ FwEnded => (FwSetupFailed \/ (exitSignaled /\ fwPc = "ok"))

\* C16 witness: a second reload was enqueued while the first one was answered
\* but its awaiting task had not yet seen the answer.
C16_Witness ==
    /\ Running /\ fwPc = "loop" /\ ~exitSignaled
    /\ awaiting = {1, 2} /\ responses = {1} /\ reloads = 2

\* C18 - A coalesced event has no effect: when the loop takes an event while
\* the gate is closed, no command is enqueued, no timer is scheduled, no
\* response is awaited, the gate stays closed and the loop goes on.
C18_CoalescedNoEffect ==
    [][(rx' = rx - 1 /\ ~gate)
          => /\ ~gate' /\ fwPc' = fwPc
             /\ UNCHANGED << queue, timers, awaiting, reloads, reopens >>]_vars

\* C18 witness: two events were forwarded and taken by the loop, the first
\* caused the reload and closed the gate, the second was coalesced.
C18_Witness ==
    /\ Running /\ fwPc = "loop" /\ nEvents = 2 /\ lastEv.fwd /\ rx = 0
    /\ ~gate /\ timers = 1 /\ reopens = 0 /\ reloads = 1

\* C19 - Gate/timer invariant: while run_filewatch is in its loop, the gate is
\* closed exactly when one reopen timer is pending, at most one timer is
\* pending, and the reloads enqueued so far are at most the completed
\* reopenings plus one.
C19_GateTimer ==
    fwPc = "loop" =>
        /\ ~gate <=> timers = 1
        /\ timers <= 1
        /\ reloads <= reopens + 1

\* C19 witness: the gate has been reopened once and closed again by a second
\* reload whose timer is pending.
C19_Witness ==
    Running /\ fwPc = "loop" /\ ~gate /\ timers = 1 /\ reopens = 1 /\ reloads = 2

====
